---- MODULE Spec2Model ----
(***************************************************************************)
(* Model of embedded-simple-ui: the PinLed state machine of src/led.rs and *)
(* the PinSwitch state machine of src/switch.rs.                           *)
(*                                                                         *)
(* Time is the tick count of an embedded_time Clock whose tick is one      *)
(* millisecond, so an Instant is a natural number and the Milliseconds     *)
(* between two instants is their difference.  The output pin is modelled   *)
(* by its driven level (TRUE = high).  Option<T> is modelled as a sequence *)
(* of length 0 (None) or 1 (Some).                                         *)
(***************************************************************************)
EXTENDS Integers, Sequences, FiniteSets, TLC

\* ------------------------------------------------------------------ bounds
\* Largest instant a caller passes to poll.
MaxTime == 8
\* Number of polls recorded in the poll trace of a blink scenario.
MaxTrace == 5

Time == 0..MaxTime
\* Pulse lengths (ms) handed to EffectType::Pulse.
PulseDurations == {2, 3}
\* Blink rates (Hz) handed to EffectType::Blink: periods of 2, 3 and 4 ms.
BlinkRates == {500, 333, 250}
\* Total durations (ms) handed to set_duration / set_effect_duration.
TotalDurations == {2, 4}

\* ------------------------------------------------------------------ Option
None == << >>
Some(x) == << x >>
IsSome(o) == o # None
Unwrap(o) == o[1]

\* ------------------------------------------------------------------ effects
Pulse(d) == [kind |-> "Pulse", val |-> d]
Blink(r) == [kind |-> "Blink", val |-> r]
EffectTypes == {Pulse(d) : d \in PulseDurations} \cup {Blink(r) : r \in BlinkRates}

\* LedEffect::new
LedEffectNew(fx_type) ==
    [current_cycle_started_at |-> None,
     fx_type |-> fx_type,
     duration |-> None,
     started_at |-> None]

has_started(fx) == IsSome(fx.started_at)

\* set_started_at that leaves the cycle start unset.
set_started_at_only(fx, t) == [fx EXCEPT !.started_at = Some(t)]

set_started_at(fx, t) ==
    [fx EXCEPT !.started_at = Some(t), !.current_cycle_started_at = Some(t)]

get_duration(fx) == fx.duration

set_duration(fx, dur) == [fx EXCEPT !.duration = Some(dur)]

\* Instant::checked_duration_since, as used by time_elapsed and
\* current_cycle_duration: absent when t precedes the stored instant.
checked_duration_since(t, since) == IF t >= since THEN Some(t - since) ELSE None

time_elapsed(fx, t) ==
    IF IsSome(fx.started_at)
    THEN checked_duration_since(t, Unwrap(fx.started_at))
    ELSE None

current_cycle_duration(fx, t) ==
    IF IsSome(fx.current_cycle_started_at)
    THEN checked_duration_since(t, Unwrap(fx.current_cycle_started_at))
    ELSE None

start_new_cycle(fx, t) == [fx EXCEPT !.current_cycle_started_at = Some(t)]

\* rate.to_duration::<Milliseconds>(): the period of a rate in Hz, in whole
\* milliseconds (integer division, remainder dropped).
to_duration(rate) == 1000 \div rate

\* The effects a caller hands to set_effect: LedEffect::new(kind), optionally
\* followed by set_duration.
NewEffects ==
    {LedEffectNew(ty) : ty \in EffectTypes}
      \cup {set_duration(LedEffectNew(ty), d) : ty \in EffectTypes, d \in TotalDurations}

\* ------------------------------------------------------------------ state
VARIABLES
    pin,        \* driven level of the output pin (TRUE = high)
    effect,     \* PinLed.effect : Option<LedEffect>
    is_on,      \* PinLed.is_on
    op,         \* history: name of the last operation called
    now,        \* history: argument of the last poll
    installed,  \* history: the effect last given to set_effect
    saved_on,   \* history: is_on when set_effect was last called
    ended,      \* history: how the last effect ended ("no", "pulse",
                \*   "duration", "call"); back to "no" at the next
                \*   set_effect, turn_on or toggle
    toggles,    \* history (blink scenario): pin toggles since set_effect
    times,      \* history (blink scenario): instants of the first polls
    levels,     \* history (blink scenario): pin level at set_effect, then
                \*   after each of the first polls
    polarity,           \* PinSwitch's S: "PressedOnHigh" or "PressedOnLow"
    is_pressed,         \* PinSwitch.is_pressed
    has_changed,        \* PinSwitch.has_changed
    last_change_at,     \* PinSwitch.last_change_at
    prev_state_lasted,  \* PinSwitch.prev_state_lasted
    waiting,    \* the caller is inside wait()
    outcome,    \* "ok", or "panic" once a call has panicked
    fault,      \* history: the pin operation that failed ("none", "output", "input")
    raw,        \* history: raw input level sampled by the last switch poll
    raw_prev,   \* history: raw input level sampled by the poll before it
    prev_op,    \* history: the switch operation before the last one
    scen        \* history: number of polls of the switch scenario matched
                \*   since construction, or ScenOff

swvars == <<polarity, is_pressed, has_changed, last_change_at, prev_state_lasted,
            waiting, outcome, fault, raw, raw_prev, prev_op, scen>>

ledvars == <<pin, effect, is_on, installed, saved_on, ended, toggles, times, levels>>

vars == <<pin, effect, is_on, op, now, installed, saved_on, ended,
          toggles, times, levels, swvars>>

Self == [pin |-> pin, effect |-> effect, is_on |-> is_on]

Apply(s) == /\ pin' = s.pin
            /\ effect' = s.effect
            /\ is_on' = s.is_on

\* ------------------------------------------------------------------ PinLed
PinLedNew(p) == [pin |-> p, effect |-> None, is_on |-> FALSE]

\* turn_on that also drives the pin at once.
turn_on_drives_pin(self) == [self EXCEPT !.is_on = TRUE, !.pin = TRUE]

turn_on(self) == [self EXCEPT !.is_on = TRUE]

turn_off(self) == [self EXCEPT !.is_on = FALSE]

toggle(self) == [self EXCEPT !.is_on = ~self.is_on]

set_effect(self, fx) == [self EXCEPT !.effect = Some(fx)]

\* set_effect_duration that also restarts the effect.
set_effect_duration_restarts(self, dur) ==
    IF IsSome(self.effect)
    THEN [self EXCEPT !.effect =
            Some(set_duration(LedEffectNew(Unwrap(self.effect).fx_type), dur))]
    ELSE self

set_effect_duration(self, dur) ==
    IF IsSome(self.effect)
    THEN [self EXCEPT !.effect = Some(set_duration(Unwrap(self.effect), dur))]
    ELSE self

\* clear_effect without the turn_off call.
clear_effect_keeps_on(self) == [self EXCEPT !.effect = None]

clear_effect(self) == turn_off([self EXCEPT !.effect = None])

\* pin.set_high / pin.set_low / pin.is_set_low / pin.set_state
set_high(self) == [self EXCEPT !.pin = TRUE]
set_low(self) == [self EXCEPT !.pin = FALSE]
is_set_low(self) == self.pin = FALSE

\* The total-duration test with >= in place of >.
effect_over_ge(elapsed, fx_dur) == elapsed >= fx_dur

\* poll, line 228: the total duration is over
effect_over(elapsed, fx_dur) == elapsed > fx_dur

\* The pulse test with >= in place of >.
pulse_over_ge(current_dur, dur) == current_dur >= dur

\* poll, line 242: the pulse is over
pulse_over(current_dur, dur) == current_dur > dur

\* The blink test with >= in place of >.
blink_due_ge(current_dur, rate) == current_dur >= to_duration(rate)

\* poll, line 253: the blink period has passed
blink_due(current_dur, rate) == current_dur > to_duration(rate)

\* poll, lines 276-283: no effect installed
poll_plain(self) ==
    IF self.is_on = FALSE THEN set_high(self) ELSE set_low(self)

\* poll, lines 240-250: the Pulse arm; yields the device and the clear_effect flag
poll_pulse(self, fx, t) ==
    LET cur == current_cycle_duration(fx, t) IN
    IF IsSome(cur)
    THEN IF pulse_over(Unwrap(cur), fx.fx_type.val)
         THEN [dev |-> set_low(self), fx |-> fx, clear |-> TRUE]
         ELSE IF ~has_started(fx)
              THEN [dev |-> set_high(self), fx |-> fx, clear |-> FALSE]
              ELSE [dev |-> self, fx |-> fx, clear |-> FALSE]
    ELSE [dev |-> self, fx |-> fx, clear |-> FALSE]

\* poll, lines 251-263: the Blink arm
poll_blink(self, fx, t) ==
    LET cur == current_cycle_duration(fx, t) IN
    IF IsSome(cur) /\ blink_due(Unwrap(cur), fx.fx_type.val)
    THEN [dev |-> IF is_set_low(self) THEN set_high(self) ELSE set_low(self),
          fx |-> start_new_cycle(fx, t),
          clear |-> FALSE]
    ELSE [dev |-> self, fx |-> fx, clear |-> FALSE]

\* poll, lines 220-274: an effect is installed
poll_effect(self, t) ==
    LET fx == Unwrap(self.effect)
        elapsed == time_elapsed(fx, t)
    IN IF /\ IsSome(get_duration(fx))
          /\ IsSome(elapsed)
          /\ effect_over(Unwrap(elapsed), Unwrap(get_duration(fx)))
       THEN set_low(clear_effect(self))
       ELSE LET r == IF fx.fx_type.kind = "Pulse"
                     THEN poll_pulse(self, fx, t)
                     ELSE poll_blink(self, fx, t)
            IN IF r.clear
               THEN clear_effect(r.dev)
               ELSE [r.dev EXCEPT !.effect =
                        Some(IF ~has_started(r.fx) THEN set_started_at(r.fx, t) ELSE r.fx)]

poll(self, t) ==
    IF IsSome(self.effect) THEN poll_effect(self, t) ELSE poll_plain(self)

\* How a poll ended the installed effect, if it did.
PollEnding(self, t) ==
    IF ~IsSome(self.effect) \/ IsSome(poll(self, t).effect) THEN "none"
    ELSE LET fx == Unwrap(self.effect)
             elapsed == time_elapsed(fx, t)
         IN IF /\ IsSome(get_duration(fx))
               /\ IsSome(elapsed)
               /\ effect_over(Unwrap(elapsed), Unwrap(get_duration(fx)))
            THEN "duration"
            ELSE "pulse"

\* ------------------------------------------------------------------ PinSwitch
Polarities == {"PressedOnHigh", "PressedOnLow"}

\* The instants of the switch scenario of the specification.
ScenarioTimes == {50, 120, 300}

\* Instants a caller passes to the switch.
SwTime == Time \cup ScenarioTimes

\* The scenario: raw levels and instants of four polls of a pressed-on-high switch.
ScenarioPolls ==
    << [level |-> TRUE, at |-> 0], [level |-> TRUE, at |-> 50],
       [level |-> FALSE, at |-> 120], [level |-> FALSE, at |-> 300] >>

\* Value of scen once the polls made differ from the scenario.
ScenOff == Len(ScenarioPolls) + 1

\* PinSwitch::new
PinSwitchNew ==
    [is_pressed |-> FALSE,
     has_changed |-> FALSE,
     last_change_at |-> 0,
     prev_state_lasted |-> 0]

SwSelf ==
    [is_pressed |-> is_pressed,
     has_changed |-> has_changed,
     last_change_at |-> last_change_at,
     prev_state_lasted |-> prev_state_lasted]

SwApply(s) ==
    /\ is_pressed' = s.is_pressed
    /\ has_changed' = s.has_changed
    /\ last_change_at' = s.last_change_at
    /\ prev_state_lasted' = s.prev_state_lasted

\* pin.is_high() / pin.is_low() on a pin whose level is `level`
is_high(level) == level = TRUE
is_low(level) == level = FALSE

\* PressedState::get_pressed_state for PressedOnHigh and PressedOnLow
get_pressed_state(pol, level) ==
    IF pol = "PressedOnHigh" THEN is_high(level) ELSE is_low(level)

\* current_state: checked_duration_since(..).unwrap() panics when now
\* precedes last_change_at.
current_state(self, t) ==
    LET d == checked_duration_since(t, self.last_change_at)
    IN IF IsSome(d)
       THEN [panic |-> FALSE, val |-> Unwrap(d)]
       ELSE [panic |-> TRUE, val |-> 0]

\* The unchanged branch of poll that leaves has_changed as it was.
poll_unchanged_sticky(self) == self

\* poll, lines 128-131: the sampled state is the recorded one
poll_unchanged(self) == [self EXCEPT !.has_changed = FALSE]

\* The changed branch of poll that stores now before taking the duration.
poll_changed_late(self, new_state, t) ==
    [dev |-> [self EXCEPT !.is_pressed = new_state,
                          !.has_changed = TRUE,
                          !.prev_state_lasted = 0,
                          !.last_change_at = t],
     panic |-> FALSE]

\* poll, lines 133-136: the sampled state differs; the device is left half
\* updated when current_state panics
poll_changed(self, new_state, t) ==
    LET s1 == [self EXCEPT !.is_pressed = new_state, !.has_changed = TRUE]
        cs == current_state(s1, t)
    IN IF cs.panic
       THEN [dev |-> s1, panic |-> TRUE]
       ELSE [dev |-> [s1 EXCEPT !.prev_state_lasted = cs.val, !.last_change_at = t],
             panic |-> FALSE]

switch_poll(self, pol, level, t) ==
    LET new_state == get_pressed_state(pol, level)
    IN IF new_state = self.is_pressed
       THEN [dev |-> poll_unchanged(self), panic |-> FALSE]
       ELSE poll_changed(self, new_state, t)

is_released(self) == ~self.is_pressed

\* pressed_for with the test on the current state inverted.
pressed_for_while_pressed(self) ==
    IF self.is_pressed THEN Some(self.prev_state_lasted) ELSE None

pressed_for(self) ==
    IF ~self.is_pressed THEN Some(self.prev_state_lasted) ELSE None

released_for(self) ==
    IF self.is_pressed THEN Some(self.prev_state_lasted) ELSE None

prev_state_lasted_for(self) == self.prev_state_lasted

\* reset that keeps last_change_at.
reset_keeps_instant(self) ==
    [self EXCEPT !.prev_state_lasted = 0, !.has_changed = FALSE, !.is_pressed = FALSE]

reset(self) ==
    [self EXCEPT !.last_change_at = 0,
                 !.prev_state_lasted = 0,
                 !.has_changed = FALSE,
                 !.is_pressed = FALSE]

\* The loop test of wait inverted.
wait_breaks_unchanged(self) == ~self.has_changed

\* wait, lines 168-170: the loop ends when the poll reported a change
wait_breaks(self) == self.has_changed

\* A freshly constructed switch, nothing called yet.
SwitchFresh ==
    /\ is_pressed = PinSwitchNew.is_pressed
    /\ has_changed = PinSwitchNew.has_changed
    /\ last_change_at = PinSwitchNew.last_change_at
    /\ prev_state_lasted = PinSwitchNew.prev_state_lasted
    /\ waiting = FALSE
    /\ outcome = "ok"
    /\ fault = "none"
    /\ raw = FALSE
    /\ raw_prev = FALSE
    /\ prev_op = "new"
    /\ scen = 0

\* ------------------------------------------------------------------ actions
Init ==
    /\ pin \in BOOLEAN
    /\ effect = PinLedNew(pin).effect
    /\ is_on = PinLedNew(pin).is_on
    /\ op = "new"
    /\ now = 0
    /\ installed = None
    /\ saved_on = FALSE
    /\ ended = "no"
    /\ toggles = 0
    /\ times = << >>
    /\ levels = << >>
    /\ polarity = "PressedOnHigh"
    /\ SwitchFresh

TurnOn ==
    /\ Apply(turn_on(Self))
    /\ op' = "turn_on"
    /\ ended' = "no"
    /\ UNCHANGED <<now, installed, saved_on, toggles, times, levels>>
    /\ UNCHANGED swvars

TurnOff ==
    /\ Apply(turn_off(Self))
    /\ op' = "turn_off"
    /\ UNCHANGED <<now, installed, saved_on, ended, toggles, times, levels>>
    /\ UNCHANGED swvars

Toggle ==
    /\ Apply(toggle(Self))
    /\ op' = "toggle"
    /\ ended' = "no"
    /\ UNCHANGED <<now, installed, saved_on, toggles, times, levels>>
    /\ UNCHANGED swvars

SetEffect ==
    \E fx \in NewEffects :
        /\ Apply(set_effect(Self, fx))
        /\ op' = "set_effect"
        /\ installed' = Some(fx)
        /\ saved_on' = is_on
        /\ ended' = "no"
        /\ UNCHANGED <<now, toggles, times, levels>>
        /\ UNCHANGED swvars

SetEffectDuration ==
    \E dur \in TotalDurations :
        /\ Apply(set_effect_duration(Self, dur))
        /\ op' = "set_effect_duration"
        /\ UNCHANGED <<now, installed, saved_on, ended, toggles, times, levels>>
        /\ UNCHANGED swvars

ClearEffect ==
    /\ Apply(clear_effect(Self))
    /\ op' = "clear_effect"
    /\ ended' = IF IsSome(effect) THEN "call" ELSE ended
    /\ UNCHANGED <<now, installed, saved_on, toggles, times, levels>>
    /\ UNCHANGED swvars

Poll ==
    \E t \in Time :
        /\ Apply(poll(Self, t))
        /\ op' = "poll"
        /\ now' = t
        /\ ended' = IF PollEnding(Self, t) = "none" THEN ended ELSE PollEnding(Self, t)
        /\ UNCHANGED <<installed, saved_on, toggles, times, levels>>
        /\ UNCHANGED swvars

Next ==
    \/ TurnOn
    \/ TurnOff
    \/ Toggle
    \/ SetEffect
    \/ SetEffectDuration
    \/ ClearEffect
    \/ Poll

Spec == Init /\ [][Next]_vars

\* ------------------------------------------------------------------ blink scenario
\* A caller that installs a Blink effect with no total duration and polls it
\* with a clock that never runs backwards, consecutive polls of a started
\* effect being less than one period apart.
BlinkInstall ==
    \E r \in BlinkRates :
        /\ Apply(set_effect(Self, LedEffectNew(Blink(r))))
        /\ op' = "set_effect"
        /\ installed' = Some(LedEffectNew(Blink(r)))
        /\ saved_on' = is_on
        /\ ended' = "no"
        /\ toggles' = 0
        /\ times' = << >>
        /\ levels' = << pin >>
        /\ UNCHANGED now
        /\ UNCHANGED swvars

BlinkPoll ==
    \E t \in Time :
        /\ IsSome(effect)
        /\ t >= now
        /\ has_started(Unwrap(effect)) => t - now < to_duration(Unwrap(effect).fx_type.val)
        /\ Apply(poll(Self, t))
        /\ op' = "poll"
        /\ now' = t
        /\ toggles' = IF poll(Self, t).pin # pin THEN toggles + 1 ELSE toggles
        /\ times' = IF Len(times) < MaxTrace THEN Append(times, t) ELSE times
        /\ levels' = IF Len(times) < MaxTrace
                     THEN Append(levels, poll(Self, t).pin)
                     ELSE levels
        /\ UNCHANGED <<installed, saved_on, ended>>
        /\ UNCHANGED swvars

NextBlink ==
    \/ BlinkInstall
    \/ BlinkPoll

SpecBlink == Init /\ [][NextBlink]_vars

\* ------------------------------------------------------------------ switch actions
\* The switch alone: the LED is constructed and never used.
SwInit ==
    /\ pin = FALSE
    /\ effect = PinLedNew(pin).effect
    /\ is_on = PinLedNew(pin).is_on
    /\ op = "new"
    /\ now = 0
    /\ installed = None
    /\ saved_on = FALSE
    /\ ended = "no"
    /\ toggles = 0
    /\ times = << >>
    /\ levels = << >>
    /\ polarity \in Polarities
    /\ SwitchFresh

\* History kept by a switch poll of raw level `level` at instant t.
SwPolled(name, level, t) ==
    /\ op' = name
    /\ prev_op' = op
    /\ now' = t
    /\ raw' = level
    /\ raw_prev' = raw
    /\ scen' = IF scen < Len(ScenarioPolls)
                  /\ ScenarioPolls[scen + 1] = [level |-> level, at |-> t]
               THEN scen + 1
               ELSE ScenOff

\* poll(now) called by the owner of the poll loop, whose time source never
\* runs backwards.
SwPoll ==
    \E t \in SwTime, level \in BOOLEAN :
        /\ outcome = "ok"
        /\ ~waiting
        /\ t >= now
        /\ SwApply(switch_poll(SwSelf, polarity, level, t).dev)
        /\ outcome' = IF switch_poll(SwSelf, polarity, level, t).panic THEN "panic" ELSE "ok"
        /\ SwPolled("poll", level, t)
        /\ UNCHANGED <<polarity, waiting, fault>>
        /\ UNCHANGED ledvars

SwReset ==
    /\ outcome = "ok"
    /\ ~waiting
    /\ SwApply(reset(SwSelf))
    /\ op' = "reset"
    /\ prev_op' = op
    /\ scen' = ScenOff
    /\ UNCHANGED <<polarity, waiting, outcome, fault, now, raw, raw_prev>>
    /\ UNCHANGED ledvars

\* wait(clock) is entered.
SwWaitBegin ==
    /\ outcome = "ok"
    /\ ~waiting
    /\ waiting' = TRUE
    /\ op' = "wait"
    /\ prev_op' = op
    /\ UNCHANGED <<polarity, is_pressed, has_changed, last_change_at, prev_state_lasted,
                   outcome, fault, now, raw, raw_prev, scen>>
    /\ UNCHANGED ledvars

\* One turn of the loop of wait: poll(clock.try_now()), then break if the
\* switch has changed.
SwWaitPoll ==
    \E t \in SwTime, level \in BOOLEAN :
        /\ outcome = "ok"
        /\ waiting
        /\ t >= now
        /\ SwApply(switch_poll(SwSelf, polarity, level, t).dev)
        /\ outcome' = IF switch_poll(SwSelf, polarity, level, t).panic THEN "panic" ELSE "ok"
        /\ waiting' = ~wait_breaks(switch_poll(SwSelf, polarity, level, t).dev)
        /\ SwPolled("wait_poll", level, t)
        /\ UNCHANGED <<polarity, fault>>
        /\ UNCHANGED ledvars

SwNext ==
    \/ SwPoll
    \/ SwReset
    \/ SwWaitBegin
    \/ SwWaitPoll

SpecSwitch == SwInit /\ [][SwNext]_vars

\* poll(now) with an instant of the caller's choosing, also one that precedes
\* an instant passed before.
SwPollAny ==
    \E t \in SwTime, level \in BOOLEAN :
        /\ outcome = "ok"
        /\ SwApply(switch_poll(SwSelf, polarity, level, t).dev)
        /\ outcome' = IF switch_poll(SwSelf, polarity, level, t).panic THEN "panic" ELSE "ok"
        /\ SwPolled("poll", level, t)
        /\ UNCHANGED <<polarity, waiting, fault>>
        /\ UNCHANGED ledvars

\* current_state(now) with an instant of the caller's choosing.
SwCurrentStateAny ==
    \E t \in SwTime :
        /\ outcome = "ok"
        /\ outcome' = IF current_state(SwSelf, t).panic THEN "panic" ELSE "ok"
        /\ op' = "current_state"
        /\ prev_op' = op
        /\ now' = t
        /\ UNCHANGED <<polarity, is_pressed, has_changed, last_change_at, prev_state_lasted,
                       waiting, fault, raw, raw_prev, scen>>
        /\ UNCHANGED ledvars

SwResetAny ==
    /\ SwReset

SwNextAny ==
    \/ SwPollAny
    \/ SwCurrentStateAny
    \/ SwResetAny

SpecSwitchAny == SwInit /\ [][SwNextAny]_vars

\* ------------------------------------------------------------------ pin faults
\* poll(now) when the first pin operation it makes returns Err: whether the
\* poll makes a pin operation at all, and the device as the unwrap() of that
\* operation leaves it.
poll_pin_fault(self, t) ==
    IF ~IsSome(self.effect)
    THEN [touches |-> TRUE, dev |-> self]
    ELSE LET fx == Unwrap(self.effect)
             elapsed == time_elapsed(fx, t)
             cur == current_cycle_duration(fx, t)
         IN IF /\ IsSome(get_duration(fx))
               /\ IsSome(elapsed)
               /\ effect_over(Unwrap(elapsed), Unwrap(get_duration(fx)))
            THEN [touches |-> TRUE, dev |-> clear_effect(self)]
            ELSE IF fx.fx_type.kind = "Pulse"
                 THEN [touches |-> /\ IsSome(cur)
                                   /\ \/ pulse_over(Unwrap(cur), fx.fx_type.val)
                                      \/ ~has_started(fx),
                       dev |-> self]
                 ELSE [touches |-> IsSome(cur) /\ blink_due(Unwrap(cur), fx.fx_type.val),
                       dev |-> self]

\* The LED used while no call has panicked.
FaultFreeStep ==
    /\ outcome = "ok"
    /\ \/ SetEffect
       \/ Poll

\* LED poll(now) during which the output pin fails.
LedPollFault ==
    \E t \in Time :
        /\ outcome = "ok"
        /\ poll_pin_fault(Self, t).touches
        /\ Apply(poll_pin_fault(Self, t).dev)
        /\ op' = "poll"
        /\ now' = t
        /\ fault' = "output"
        /\ outcome' = "panic"
        /\ UNCHANGED <<installed, saved_on, ended, toggles, times, levels>>
        /\ UNCHANGED <<polarity, is_pressed, has_changed, last_change_at,
                       prev_state_lasted, waiting, raw, raw_prev, prev_op, scen>>

\* Switch poll(now) during which sampling the input pin fails: the unwrap()
\* in get_pressed_state panics before the switch is touched.
SwPollFault ==
    \E t \in Time :
        /\ outcome = "ok"
        /\ op' = "poll"
        /\ prev_op' = op
        /\ now' = t
        /\ fault' = "input"
        /\ outcome' = "panic"
        /\ UNCHANGED <<polarity, is_pressed, has_changed, last_change_at,
                       prev_state_lasted, waiting, raw, raw_prev, scen>>
        /\ UNCHANGED ledvars

FaultNext ==
    \/ FaultFreeStep
    \/ LedPollFault
    \/ SwPollFault

SpecFault == Init /\ [][FaultNext]_vars

\* ------------------------------------------------------------------ claims
\* Shorthands for the installed effect (meaningful when IsSome(effect)).
Fx == Unwrap(effect)
IsPulse == IsSome(effect) /\ Fx.fx_type.kind = "Pulse"
IsBlink == IsSome(effect) /\ Fx.fx_type.kind = "Blink"
NoLimit == IsSome(effect) /\ ~IsSome(Fx.duration)
Started == IsSome(effect) /\ has_started(Fx)
T0 == Unwrap(Fx.started_at)
CycleT0 == Unwrap(Fx.current_cycle_started_at)

\* C1: a Pulse(d) effect with no total duration is driven on (pin high) and
\* marked started by its first poll, and after every later poll at a time t
\* with t - t0 <= d the pin is still high and the effect still installed.
C1_PulseDrivenOn ==
    [][(/\ op' = "poll"
        /\ IsPulse
        /\ NoLimit
        /\ (~Started \/ now' - T0 <= Fx.fx_type.val))
       => (/\ pin' = TRUE
           /\ IsSome(effect')
           /\ has_started(Unwrap(effect')))]_vars

\* C2: for a started Pulse(d) effect with no total duration, a poll at a time
\* t with t - t0 > d drives the pin low and clears the effect, and a poll with
\* t - t0 <= d leaves the effect installed.
C2_PulseExpiry ==
    [][(/\ op' = "poll"
        /\ IsPulse
        /\ NoLimit
        /\ Started)
       => IF now' - T0 > Fx.fx_type.val
          THEN effect' = None /\ pin' = FALSE
          ELSE effect' = effect]_vars

\* C2 witness: a poll has just ended a Pulse that had no total duration.
C2_Witness ==
    /\ op = "poll"
    /\ ended = "pulse"
    /\ effect = None
    /\ pin = FALSE
    /\ IsSome(installed)
    /\ Unwrap(installed).duration = None

\* C3: once a poll has ended a Pulse effect, every poll leaves the pin low for
\* as long as no effect is set and turn_on / toggle are not called.
C3_StaysOffAfterPulse ==
    (/\ op = "poll"
     /\ ended \in {"pulse", "duration"}
     /\ Unwrap(installed).fx_type.kind = "Pulse")
    => pin = FALSE

\* C4: a poll made with no effect installed drives the pin to is_on
\* (is_on = TRUE gives high, is_on = FALSE gives low).
C4_PlainPollDrivesLogical ==
    [][(op' = "poll" /\ effect = None) => pin' = is_on']_vars

\* C7: with a total duration D set on a started effect of either kind, a poll
\* at t with t - t0 > D clears the effect and forces the output off (pin low,
\* is_on false); a poll with t - t0 <= D clears the effect only when it is a
\* Pulse whose own length has passed.
C7_TotalDuration ==
    [][(/\ op' = "poll"
        /\ Started
        /\ IsSome(Fx.duration))
       => IF now' - T0 > Unwrap(Fx.duration)
          THEN effect' = None /\ pin' = FALSE /\ is_on' = FALSE
          ELSE effect' = None => (IsPulse /\ now' - CycleT0 > Fx.fx_type.val)]_vars

\* C7 witness: a poll has just ended a Blink effect on its total duration.
C7_Witness ==
    /\ op = "poll"
    /\ ended = "duration"
    /\ effect = None
    /\ pin = FALSE
    /\ is_on = FALSE
    /\ Unwrap(installed).fx_type.kind = "Blink"

\* C8: while an effect is installed, turn_on / turn_off / toggle change neither
\* the pin nor the effect, and the level a poll drives is the same for both
\* values of is_on.
C8_LogicalOnlyWithoutEffect ==
    [][IsSome(effect)
       => (/\ op' \in {"turn_on", "turn_off", "toggle"}
              => (pin' = pin /\ effect' = effect)
           /\ op' = "poll"
              => \A b \in BOOLEAN :
                    poll([Self EXCEPT !.is_on = b], now').pin = pin')]_vars

\* C8 witness: turn_on was called during an effect and a poll of the effect
\* followed while is_on was TRUE and the pin low.
C8_Witness ==
    /\ op = "poll"
    /\ Started
    /\ is_on = TRUE
    /\ saved_on = FALSE
    /\ pin = FALSE

C10_ClearRestores ==
    [][(IsSome(effect) /\ effect' = None) => is_on' = saved_on]_vars

\* The blink scenario of C5: a Blink effect of even period P installed on a
\* pin driven low, whose first five polls were at t0, t0+P/2, t0+P, t0+3P/2
\* and t0+2P.
BlinkPeriod == to_duration(Unwrap(installed).fx_type.val)
HalfPeriodPolls ==
    /\ IsSome(installed)
    /\ Unwrap(installed).fx_type.kind = "Blink"
    /\ BlinkPeriod % 2 = 0
    /\ Len(times) >= 5
    /\ Len(levels) >= 6
    /\ levels[1] = FALSE
    /\ \A i \in 1..5 : times[i] = times[1] + (i - 1) * (BlinkPeriod \div 2)

\* C5 as stated: in the blink scenario the levels after the five polls are
\* low, low, high, high, low (toggles at the polls at t0+P and t0+2P).
C5_Original ==
    HalfPeriodPolls
    => SubSeq(levels, 2, 6) = <<FALSE, FALSE, TRUE, TRUE, FALSE>>

\* C5 (amended): in the blink scenario the levels after the five polls are
\* low, low, low, high, high: the only toggle is at the poll at t0+3P/2, the
\* first poll at which more than P has elapsed in the cycle.
C5_BlinkScenario ==
    HalfPeriodPolls
    => SubSeq(levels, 2, 6) = <<FALSE, FALSE, FALSE, TRUE, TRUE>>

\* C5 witness: the five polls of the scenario have been made.
C5_Witness ==
    /\ HalfPeriodPolls
    /\ op = "poll"
    /\ Len(times) = 5
    /\ levels = <<FALSE, FALSE, FALSE, FALSE, TRUE, TRUE>>

\* A poll of a started Blink effect has landed exactly k periods after the
\* start, k >= 1 (polls less than one period apart, no total duration).
AtWindowEnd ==
    /\ op = "poll"
    /\ IsBlink
    /\ NoLimit
    /\ Started
    /\ now > T0
    /\ (now - T0) % to_duration(Fx.fx_type.val) = 0
WindowK == (now - T0) \div to_duration(Fx.fx_type.val)

\* C6 as stated: over a window of k periods since the start the number of
\* toggles is k-1, k or k+1.
C6_Original ==
    AtWindowEnd => toggles \in {WindowK - 1, WindowK, WindowK + 1}

\* C6 (amended): over a window of k periods since the start the number of
\* toggles is at most k-1 and at least k/2 rounded down.
C6_BlinkToggleCount ==
    AtWindowEnd => (toggles <= WindowK - 1 /\ toggles >= WindowK \div 2)

\* C6 witness: four periods after the start only two toggles have happened.
C6_Witness ==
    /\ AtWindowEnd
    /\ WindowK = 4
    /\ toggles = 2

\* The total duration of the installed effect is not the one it was installed
\* with: set_effect_duration has changed it.
DurationChanged ==
    /\ IsSome(effect)
    /\ IsSome(installed)
    /\ IsSome(Fx.duration)
    /\ Fx.duration # Unwrap(installed).duration

\* set_effect_duration with no effect installed changes nothing; with an
\* effect installed it changes the effect's total duration and nothing else.
SetEffectDurationFrame ==
    op' = "set_effect_duration"
    => (/\ pin' = pin
        /\ is_on' = is_on
        /\ IF effect = None
           THEN effect' = None
           ELSE /\ IsSome(effect')
                /\ IsSome(Unwrap(effect').duration)
                /\ Unwrap(effect').fx_type = Fx.fx_type
                /\ Unwrap(effect').started_at = Fx.started_at
                /\ Unwrap(effect').current_cycle_started_at = Fx.current_cycle_started_at)

\* C11 as stated: set_effect_duration is a no-op without an effect and changes
\* only the total duration of an installed one, and a started effect whose
\* duration was changed to D' is not cleared by any poll with t - t0 <= D'.
C11_Original ==
    [][/\ SetEffectDurationFrame
       /\ (/\ op' = "poll"
           /\ Started
           /\ DurationChanged
           /\ now' - T0 <= Unwrap(Fx.duration))
          => IsSome(effect')]_vars

\* C11 (amended): set_effect_duration is a no-op without an effect and changes
\* only the total duration of an installed one, and a started effect whose
\* duration was changed to D' is not cleared on account of the total duration
\* by any poll with t - t0 <= D': a Blink stays installed, a Pulse is cleared
\* only when its own length has passed.
C11_SetEffectDuration ==
    [][/\ SetEffectDurationFrame
       /\ (/\ op' = "poll"
           /\ Started
           /\ DurationChanged
           /\ now' - T0 <= Unwrap(Fx.duration))
          => (effect' = None => (IsPulse /\ now' - CycleT0 > Fx.fx_type.val))]_vars

\* C11 witness: an effect installed with a total duration of 2 had it raised
\* to 4 and has survived a poll more than 2 after its start.
C11_Witness ==
    /\ op = "poll"
    /\ Started
    /\ Unwrap(installed).duration = Some(2)
    /\ Fx.duration = Some(4)
    /\ now - T0 \in 3..4

\* started_at and current_cycle_started_at are both unset, or both set with
\* the cycle start not before the effect start.
StartedTogether ==
    IsSome(effect)
    => \/ Fx.started_at = None /\ Fx.current_cycle_started_at = None
       \/ /\ IsSome(Fx.started_at)
          /\ IsSome(Fx.current_cycle_started_at)
          /\ CycleT0 >= T0

\* C19: an effect is unstarted from set_effect until the next poll; that poll
\* sets started_at and current_cycle_started_at to its now without toggling a
\* Blink; afterwards started_at never changes and current_cycle_started_at
\* changes only when a Blink toggles, to the now of the toggling poll; in
\* every state the two are both unset or both set with cycle >= start.
C19_StartBookkeeping ==
    [][/\ StartedTogether'
       /\ op' = "set_effect"
          => (/\ Unwrap(effect').started_at = None
              /\ Unwrap(effect').current_cycle_started_at = None)
       /\ (IsSome(effect) /\ ~Started /\ op' # "poll" /\ IsSome(effect'))
          => ~has_started(Unwrap(effect'))
       /\ (IsSome(effect) /\ ~Started /\ op' = "poll" /\ IsSome(effect'))
          => (/\ Unwrap(effect').started_at = Some(now')
              /\ Unwrap(effect').current_cycle_started_at = Some(now')
              /\ IsBlink => pin' = pin)
       /\ (Started /\ IsSome(effect') /\ op' # "set_effect")
          => (/\ Unwrap(effect').started_at = Fx.started_at
              /\ Unwrap(effect').current_cycle_started_at # Fx.current_cycle_started_at
                 => (/\ IsBlink
                     /\ op' = "poll"
                     /\ pin' # pin
                     /\ Unwrap(effect').current_cycle_started_at = Some(now')))]_vars

\* C19 witness: a started Blink has toggled, so its cycle start is later than
\* its start.
C19_Witness ==
    /\ op = "poll"
    /\ IsBlink
    /\ Started
    /\ CycleT0 = now
    /\ CycleT0 > T0

\* ------------------------------------------------------------------ switch claims
\* The last call was a poll of the switch, made by the caller or by wait.
SwPollOps == {"poll", "wait_poll"}
\* The logical state the last poll sampled.
Sampled == get_pressed_state(polarity, raw)

\* C12: a poll whose sampled logical state equals is_pressed sets has_changed
\* to FALSE and leaves prev_state_lasted, is_pressed and last_change_at alone.
C12_UnchangedPoll ==
    [][(op' \in SwPollOps /\ Sampled' = is_pressed)
       => (/\ has_changed' = FALSE
           /\ prev_state_lasted' = prev_state_lasted
           /\ is_pressed' = is_pressed
           /\ last_change_at' = last_change_at)]_vars

\* C12 witness: a poll reported a change and the next poll, sampling the same
\* raw level, reports none.
C12_Witness ==
    /\ op = "poll"
    /\ prev_op = "poll"
    /\ raw = raw_prev
    /\ is_pressed
    /\ has_changed = FALSE
    /\ prev_state_lasted > 0
    /\ last_change_at < now

\* The scenario of C13 on a pressed-on-high switch: after the third poll
\* (low at 120) and after the fourth (low at 300).
SwitchScenario ==
    polarity = "PressedOnHigh"
    => (/\ scen = 3 => (/\ is_pressed = FALSE
                        /\ has_changed = TRUE
                        /\ prev_state_lasted = 120)
        /\ scen = 4 => (/\ is_pressed = FALSE
                        /\ has_changed = FALSE
                        /\ current_state(SwSelf, 300) = [panic |-> FALSE, val |-> 180]))

\* C13: a poll(now) whose sampled logical state differs from is_pressed sets
\* prev_state_lasted to now - last_change_at, is_pressed to the sampled state,
\* last_change_at to now and has_changed to TRUE; the scenario high@0,
\* high@50, low@120, low@300 gives 120 after the third poll and a current
\* state duration of 180 at 300.
C13_ChangedPoll ==
    [][/\ (op' \in SwPollOps /\ Sampled' # is_pressed)
          => (/\ prev_state_lasted' = now' - last_change_at
              /\ is_pressed' = Sampled'
              /\ last_change_at' = now'
              /\ has_changed' = TRUE)
       /\ SwitchScenario']_vars

\* C13 witness: the four polls of the scenario have been made.
C13_Witness ==
    /\ polarity = "PressedOnHigh"
    /\ scen = 4
    /\ now = 300
    /\ last_change_at = 120

\* pressed_for has a value, prev_state_lasted, exactly when the switch is
\* released, and released_for exactly when it is pressed.
ForQueries ==
    /\ pressed_for(SwSelf) = IF is_pressed THEN None ELSE Some(prev_state_lasted)
    /\ released_for(SwSelf) = IF is_pressed THEN Some(prev_state_lasted) ELSE None

\* C14: right after the poll at t1 that observes the release of a switch
\* pressed since the poll at t0, pressed_for is t1 - t0 and released_for has
\* no value; pressed_for has a value exactly when released, released_for
\* exactly when pressed.
C14_PressedFor ==
    [][/\ (is_pressed /\ op' \in SwPollOps /\ ~is_pressed')
          => (/\ pressed_for(SwSelf') = Some(now' - last_change_at)
              /\ released_for(SwSelf') = None)
       /\ ForQueries']_vars

\* C14 witness: a release has just been observed after a press of some length.
C14_Witness ==
    /\ op = "poll"
    /\ has_changed
    /\ ~is_pressed
    /\ last_change_at = now
    /\ pressed_for(SwSelf) # None
    /\ Unwrap(pressed_for(SwSelf)) > 0
    /\ Unwrap(pressed_for(SwSelf)) < now

\* C15: after reset is_pressed and has_changed are FALSE, prev_state_lasted
\* is zero and current_state(now) is now - 0 for every now.
C15_Reset ==
    op = "reset"
    => (/\ is_pressed = FALSE
        /\ has_changed = FALSE
        /\ prev_state_lasted = 0
        /\ \A t \in SwTime : current_state(SwSelf, t) = [panic |-> FALSE, val |-> t])

\* C15 witness: reset was called right after a poll at a later instant than 0
\* that sampled the pressed level.
C15_Witness ==
    /\ op = "reset"
    /\ prev_op = "poll"
    /\ now > 0
    /\ Sampled

\* C16: a poll made by wait ends the wait exactly when it reports a change,
\* which it does exactly when the sampled logical state differs from
\* is_pressed, and wait ends in no other way.
C16_Wait ==
    [][/\ (waiting /\ op' = "wait_poll")
          => (/\ waiting' = ~has_changed'
              /\ has_changed' = (Sampled' # is_pressed))
       /\ (waiting /\ ~waiting') => (op' = "wait_poll" /\ has_changed')]_vars

\* C16 witness: wait has returned at a poll that was not its first.
C16_Witness ==
    /\ op = "wait_poll"
    /\ prev_op = "wait_poll"
    /\ ~waiting
    /\ has_changed

\* C17: no call panics, whatever instant it is given.
C17_NeverPanics ==
    outcome # "panic"

\* C20: with the input at its pressed level, the first poll(now) after new or
\* reset reports has_changed and is_pressed and a prev_state_lasted of now - 0.
C20_FirstPollReportsChange ==
    [][(op \in {"new", "reset"} /\ op' \in SwPollOps /\ Sampled')
       => (/\ has_changed' = TRUE
           /\ is_pressed' = TRUE
           /\ prev_state_lasted' = now')]_vars

\* C20 witness: the poll after a reset reports a change although it sampled
\* the raw level of the poll before the reset.
C20_Witness ==
    /\ op = "poll"
    /\ prev_op = "reset"
    /\ Sampled
    /\ raw = raw_prev
    /\ polarity = "PressedOnHigh"
    /\ has_changed
    /\ is_pressed
    /\ now > 0
    /\ prev_state_lasted = now

\* C18: a pin operation that fails during a poll reaches the caller as an
\* error value, OutputFault from the LED poll and InputFault from the switch
\* poll.
C18_FaultIsReturned ==
    /\ fault = "output" => outcome = "OutputFault"
    /\ fault = "input" => outcome = "InputFault"

====
